---- MODULE Spec2Model ----
(***************************************************************************)
(* The Game Hub of the quiz backend (services/game-service): the client    *)
(* registry, the session rows of one quiz instance, the quiz cache         *)
(* (QuestionStart, CurrentIndex), the question timer table, and the        *)
(* goroutines that run beside the Hub's dispatcher (Join, Resume, timer    *)
(* callbacks, finishQuiz started from them).                               *)
(*                                                                         *)
(* One instance is modelled.  One clock tick is one second (1000 ms); all  *)
(* time limits are whole seconds, so every elapsed time the code computes  *)
(* in milliseconds is a whole number of ticks times 1000.                  *)
(***************************************************************************)
EXTENDS Integers, Sequences, FiniteSets, TLC

\* ------------------------------------------------------------------ bounds
\* The clock stops advancing at MaxTime.
MaxTime == 2
\* Answers kept in the sessions of the instance, in total.
MaxAnswers == 2
\* The time limit (seconds) of a question that has one.
LimitSec == 1
\* max_score of every question.
QMaxScore == 10
\* The time limit (seconds) of the one question of a quiz with a long
\* limit, and the largest max_score such a quiz gives its question.
LongLimitSec == 6
HighMaxScore == 12
\* Join goroutines running at the same time.
MaxJoining == 1
\* Clients that disconnect, in total.
MaxUnregister == 1
\* Messages a client's Send holds (the buffer of NewClient, 256 in the code).
SendCapacity == 2
\* Questions of a quiz whose questions have a time limit, and of one whose
\* questions have none.
TimedQuestions == 2
UntimedQuestions == 3

\* ------------------------------------------------------------------ constants
\* the significant bits of a float64
MantissaBits == 53

Creator == "c"
Participants == {"a", "b"}
Users == {Creator} \cup Participants

MaxQuestions == IF TimedQuestions > UntimedQuestions THEN TimedQuestions ELSE UntimedQuestions

InstanceStatusWaiting == "waiting"
InstanceStatusActive == "active"
InstanceStatusFinished == "finished"
SessionStatusJoined == "joined"
SessionStatusInProgress == "in_progress"
SessionStatusFinished == "finished"
QuizTypeSync == "sync"
QuizTypeAsync == "async"

VARIABLES
    quiz,        \* the instance as the Quiz Catalog serves it: type, and the
                 \* time limit of every question
    instStatus,  \* quiz_instances.status
    cached,      \* quiz:<instance>:data is in the cache
    clients,     \* h.clients[instance]: the users with a registered client
    joins,       \* per user: the Join goroutine of its client
    resumes,     \* per user: the delayed Resume goroutine of its client
    sess,        \* game_sessions rows of the instance, by user
    nSessions,   \* rows created so far (orders started_at)
    curIndex,    \* quiz:<instance>:current_index (0 when absent)
    qStart,      \* QuestionStart per key (0 when absent)
    timers,      \* h.questionTimers: pending timers per key
    cbs,         \* timer callbacks that have fired and not yet run
    fins,        \* per user: a finishQuiz of a goroutine between its read and its write
    now,         \* wall clock, in seconds
    panicked,    \* a goroutine sent on a closed channel: the process is gone
    nUnregister, \* disconnects so far
    sent,        \* per user: the messages the last step enqueued for its client
    stalled,     \* the clients whose WritePump has stopped taking messages off Send
    pending,     \* per user: the messages waiting on the Send of a stalled client
    closed,      \* the registered clients whose Send SendMessage has closed
    crashed      \* a closed Send was closed again or sent on: the process is gone

vars == <<quiz, instStatus, cached, clients, joins, resumes, sess, nSessions,
          curIndex, qStart, timers, cbs, fins, now, panicked, nUnregister, sent,
          stalled, pending, closed, crashed>>

\* ------------------------------------------------------------------ data
\* len(quizData.Questions); a question's id is its index (order_index).
NumQuestions == Len(quiz.limits)
QIdx == 0..(NumQuestions - 1)

Keys == (Users \cup {"*"}) \X (0..(MaxQuestions - 1))

NoSession ==
    [status |-> "none", current_question_index |-> 0, score |-> 0,
     answers |-> <<>>, started_at |-> 0, finished_at |-> 0]

NoTimer == [deadline |-> 0, stale |-> FALSE]
NoJoin == [pc |-> "none", status |-> "", stale |-> FALSE]
NoFin == [pc |-> "none", session |-> NoSession, stale |-> FALSE]
NoResume == [pc |-> "none", stale |-> FALSE, currentIndex |-> 0, index |-> 0, seen |-> {}]

NoMsgs == [u \in Users |-> <<>>]

\* every client taken for the creator's
IsCreatorAnyone(u) == TRUE

IsCreator(u) == u = Creator

\* no question taken to have a time limit
NoTimeLimit(k) == 0

\* a time limit on every question
AlwaysLimited(k) == LimitSec

TimeLimitSec(k) == quiz.limits[k + 1]
\* question.MaxScore, the same for every question of the quiz
MaxScore == quiz.max_score
CorrectAnswer == "right"
AnswerTexts == {"right", "wrong"}

\* ---- messages (server -> client)
QuestionMsg(k, ms) ==
    [type |-> "question", question_index |-> k, time_limit_ms |-> ms]
TimeExpiredMsg(k) == [type |-> "time_expired", question_index |-> k]
WaitingMsg(k, reason) ==
    [type |-> "waiting_for_creator", question_index |-> k, reason |-> reason]
LeaderboardMsg(board) == [type |-> "leaderboard", leaderboard |-> board]
AnswerResultMsg(ok, score, total) ==
    [type |-> "answer_result", is_correct |-> ok, score |-> score, total_score |-> total]
QuizFinishedMsg(score, rank) ==
    [type |-> "quiz_finished", final_score |-> score, rank |-> rank]
ErrorMsg(text) == [type |-> "error", message |-> text]
ConnectedMsg(st) == [type |-> "connected", quiz_status |-> st]
ParticipantsUpdateMsg(action, u, n) ==
    [type |-> "participants_update", action |-> action, user_id |-> u, count |-> n]
QuizStartedMsg == [type |-> "quiz_started"]

\* a send that reaches every user's client
ToEveryone(u, msgs) == [v \in Users |-> msgs]

\* client.SendMessage(...) for one client
ToClient(u, msgs) == [v \in Users |-> IF v = u THEN msgs ELSE <<>>]
\* the messages of two sends, in order
Cat(m1, m2) == [v \in Users |-> m1[v] \o m2[v]]

broadcastToInstance(cl, msgs) == [v \in Users |-> IF v \in cl THEN msgs ELSE <<>>]

broadcastToParticipants(cl, msgs) ==
    [v \in Users |-> IF v \in cl /\ ~IsCreator(v) THEN msgs ELSE <<>>]

\* ---- session repository
\* rows ordered by started_at alone
RowBeforeByStart(s, u, v) == s[u].started_at < s[v].started_at

\* ORDER BY score DESC, started_at ASC
RowBefore(s, u, v) ==
    \/ s[u].score > s[v].score
    \/ s[u].score = s[v].score /\ s[u].started_at < s[v].started_at

GetSessionsByInstance(s) ==
    LET rows == {u \in Users : s[u].status # "none"}
        pos(u) == 1 + Cardinality({v \in rows : RowBefore(s, v, u)})
    IN  [i \in 1..Cardinality(rows) |-> CHOOSE u \in rows : pos(u) = i]

\* an UpdateSessionStatus that also puts the row back on the first question
UpdateSessionStatusRewinding(s, u, st) ==
    IF s[u].status = "none" THEN s
    ELSE [s EXCEPT ![u].status = st, ![u].current_question_index = 0]

\* UPDATE game_sessions SET status = ... (no row: "session not found", logged)
UpdateSessionStatus(s, u, st) ==
    IF s[u].status = "none" THEN s ELSE [s EXCEPT ![u].status = st]

SumScores(answers) ==
    LET F[i \in 0..Len(answers)] ==
            IF i = 0 THEN 0 ELSE F[i - 1] + answers[i].score
    IN  F[Len(answers)]

\* ---- scoring
validateAnswer(answer, correctAnswer) == answer = correctAnswer

\* a scoring that adds the share of the time spent instead of taking it off
calculateScoreRising(maxScore, timeSpentMs, timeLimitMs) ==
    IF timeLimitMs = 0 THEN maxScore
    ELSE (maxScore * (2 * timeLimitMs + timeSpentMs)) \div (2 * timeLimitMs)

\* -- float64 values of calculateScore: a non-negative number is held as its
\* integer part and the bits after the binary point, without trailing zeros.
\* Every operation rounds its exact result to the 53 significant bits of a
\* float64, to nearest and ties to even, as the Go arithmetic does.
BitLen(n) ==
    LET F[i \in 0..n] == IF i = 0 THEN 0 ELSE 1 + F[i \div 2]
    IN  F[n]

\* the positions of the first and of the last 1 after the binary point, 0
\* when there is none
Ones(bits) == {i \in 1..Len(bits) : bits[i] = 1}
FirstOne(bits) ==
    IF Ones(bits) = {} THEN 0 ELSE CHOOSE i \in Ones(bits) : \A j \in Ones(bits) : i <= j
LastOne(bits) ==
    IF Ones(bits) = {} THEN 0 ELSE CHOOSE i \in Ones(bits) : \A j \in Ones(bits) : i >= j

Trim(bits) == SubSeq(bits, 1, LastOne(bits))

\* how many bits after the binary point a float64 of this magnitude holds
Kept(n, bits) ==
    IF n > 0 THEN MantissaBits - BitLen(n) ELSE FirstOne(bits) - 1 + MantissaBits

\* the number whose binary digits are bits[lo..hi], and the k binary digits
\* of the number v
RECURSIVE Value(_, _, _)
Value(bits, lo, hi) ==
    IF lo > hi THEN 0
    ELSE IF lo = hi THEN bits[lo]
    ELSE Value(bits, lo, (lo + hi) \div 2) * 2^(hi - (lo + hi) \div 2)
         + Value(bits, (lo + hi) \div 2 + 1, hi)

Digits(v, k) == [i \in 1..k |-> (v \div 2^(k - i)) % 2]

\* m times the first hi bits plus carry, taken k bits at a time from the
\* last: the bits of the product and the carry out of them
RECURSIVE MulBits(_, _, _, _, _)
MulBits(m, bits, hi, k, carry) ==
    IF hi = 0 THEN [bits |-> <<>>, carry |-> carry]
    ELSE LET lo == IF hi > k THEN hi - k + 1 ELSE 1
             v == m * Value(bits, lo, hi) + carry
             rest == MulBits(m, bits, lo - 1, k, v \div 2^(hi - lo + 1))
         IN  [bits |-> rest.bits \o Digits(v % 2^(hi - lo + 1), hi - lo + 1),
              carry |-> rest.carry]

\* the bits plus one unit in the last place, and the carry out of them: the
\* last 0 becomes 1 and the 1s after it become 0
IncBits(bits) ==
    LET zeros == {i \in 1..Len(bits) : bits[i] = 0}
        z == CHOOSE i \in zeros : \A j \in zeros : i >= j
    IN  IF zeros = {} THEN [bits |-> [i \in 1..Len(bits) |-> 0], carry |-> 1]
        ELSE [bits |-> [i \in 1..Len(bits) |->
                           IF i < z THEN bits[i] ELSE IF i = z THEN 1 ELSE 0],
              carry |-> 0]

\* the float64 nearest to n.bits; sticky says that the exact value has more
\* non-zero bits than those given
F64(n, bits, sticky) ==
    LET keep == Kept(n, bits) IN
    IF Len(bits) <= keep THEN [int |-> n, frac |-> Trim(bits)]
    ELSE LET head == SubSeq(bits, 1, keep)
             guard == bits[keep + 1]
             rest == sticky \/ \E i \in (keep + 2)..Len(bits) : bits[i] = 1
             lsb == IF keep = 0 THEN n % 2 ELSE bits[keep]
             r == IncBits(head)
         IN  IF guard = 1 /\ (rest \/ lsb = 1)
             THEN [int |-> n + r.carry, frac |-> Trim(r.bits)]
             ELSE [int |-> n, frac |-> Trim(head)]

\* long division, k bits at a time: n or more bits of rem / d after the
\* binary point, fewer when the division comes out even, and the remainder
RECURSIVE QuotientBits(_, _, _, _)
QuotientBits(rem, d, n, k) ==
    IF n <= 0 \/ rem = 0 THEN [bits |-> <<>>, rem |-> rem]
    ELSE LET rest == QuotientBits((rem * 2^k) % d, d, n - k, k)
         IN  [bits |-> Digits((rem * 2^k) \div d, k) \o rest.bits, rem |-> rest.rem]

\* float64(a) / float64(b): the quotient's first significant bit is in its
\* integer part or among the first BitLen(b) bits after the point, and one
\* bit more than a float64 holds decides the rounding
F64Div(a, b) ==
    LET n == a \div b
        q == QuotientBits(a % b, b,
                          IF n > 0 THEN MantissaBits - BitLen(n) + 1
                          ELSE BitLen(b) + MantissaBits,
                          30 - BitLen(b))
    IN  F64(n, q.bits, q.rem # 0)

\* 0.5 * x, which is exact
F64Half(x) == [int |-> x.int \div 2, frac |-> Trim(<<x.int % 2>> \o x.frac)]

\* 1.0 - x, for x between 0 and 1
F64OneMinus(x) ==
    IF x.frac = <<>> THEN [int |-> 1 - x.int, frac |-> <<>>]
    ELSE F64(0, [i \in 1..Len(x.frac) |-> IF i = Len(x.frac) THEN 1 ELSE 1 - x.frac[i]],
             FALSE)

\* float64(m) * x
F64MulInt(m, x) ==
    LET p == MulBits(m, x.frac, Len(x.frac), 30 - BitLen(m), 0)
    IN  F64(m * x.int + p.carry, p.bits, FALSE)

calculateScore(maxScore, timeSpentMs, timeLimitMs) ==
    IF timeLimitMs = 0 THEN maxScore
    ELSE LET q == F64Div(timeSpentMs, timeLimitMs)
             timeRatio == IF q.int > 1 \/ (q.int = 1 /\ q.frac # <<>>)
                          THEN [int |-> 1, frac |-> <<>>]
                          ELSE q
             score == F64MulInt(maxScore, F64OneMinus(F64Half(timeRatio)))
         IN  score.int

\* ---- leaderboard and progress
getLeaderboard(s) ==
    LET all == GetSessionsByInstance(s)
        kept == SelectSeq(all, LAMBDA u : u # Creator)
    IN  [i \in 1..Len(kept) |->
            [rank |-> i, user_id |-> kept[i], score |-> s[kept[i]].score]]

Counted(s) ==
    {u \in Users : /\ u # Creator
                   /\ s[u].status \in {SessionStatusInProgress, SessionStatusFinished}}

checkAllParticipantsAnswered(s, k) ==
    LET participantCount == Cardinality(Counted(s))
        answeredCount == Cardinality({u \in Counted(s) : s[u].current_question_index > k})
    IN  participantCount # 0 /\ answeredCount >= participantCount

notifyCreatorProgress(cl, s, k) ==
    IF Creator \in cl
    THEN ToClient(Creator, <<WaitingMsg(k, "Question in progress")>>)
    ELSE NoMsgs

showLeaderboardAndWait(cl, s, k) ==
    Cat(broadcastToInstance(cl, <<LeaderboardMsg(getLeaderboard(s))>>),
        broadcastToParticipants(cl, <<WaitingMsg(k, "All participants answered")>>))

\* ---- sendQuestion, for the clients T and a question k < NumQuestions
Key(u, k) == IF quiz.type = QuizTypeSync THEN <<"*", k>> ELSE <<u, k>>

SQKeys(T, k) == {Key(u, k) : u \in T}

\* a Set(startTimeKey, now) in the place of SetNX
SQStartOverwriting(T, k) ==
    [key \in Keys |-> IF key \in SQKeys(T, k) THEN now ELSE qStart[key]]

\* SetNX(startTimeKey, now)
SQStart(T, k) ==
    [key \in Keys |-> IF key \in SQKeys(T, k) /\ qStart[key] = 0 THEN now ELSE qStart[key]]

\* the timer duration, in seconds
SQDuration(T, u, k) ==
    LET remaining == TimeLimitSec(k) - (now - SQStart(T, k)[Key(u, k)])
    IN  IF TimeLimitSec(k) = 0 \/ remaining <= 0 THEN 0 ELSE remaining

startQuestionTimer(tm, key, duration) ==
    [tm EXCEPT ![key] = [deadline |-> now + duration, stale |-> FALSE]]

SQTimers(T, k) ==
    [key \in Keys |->
        IF key \in SQKeys(T, k) /\ TimeLimitSec(k) > 0
        THEN LET u == CHOOSE v \in T : Key(v, k) = key
             IN  startQuestionTimer(timers, key, SQDuration(T, u, k))[key]
        ELSE timers[key]]

SQSent(T, k) ==
    [v \in Users |->
        IF v \in T /\ ~(quiz.type = QuizTypeSync /\ IsCreator(v))
        THEN <<QuestionMsg(k, SQDuration(T, v, k) * 1000)>>
        ELSE <<>>]

cancelQuestionTimer(tm, key) == [tm EXCEPT ![key] = NoTimer]

\* a cancelAllTimersForInstance that stops nothing
cancelNoTimers(tm) == tm

cancelAllTimersForInstance(tm) == [key \in Keys |-> NoTimer]

\* ---- finishQuiz on the dispatcher, for the clients T (each has a row or gets an error)
FinishedRow(row) ==
    [row EXCEPT !.status = SessionStatusFinished, !.finished_at = now]

RankOf(s, u) ==
    LET board == getLeaderboard(s)
    IN  IF \E i \in 1..Len(board) : board[i].user_id = u
        THEN (CHOOSE i \in 1..Len(board) : board[i].user_id = u)
        ELSE 0

FinishSess(T) ==
    [v \in Users |-> IF v \in T /\ sess[v].status # "none" THEN FinishedRow(sess[v]) ELSE sess[v]]

FinishSent(T) ==
    [v \in Users |->
        IF v \notin T THEN <<>>
        ELSE IF sess[v].status = "none" THEN <<ErrorMsg("Failed to finish quiz")>>
        ELSE <<QuizFinishedMsg(sess[v].score, RankOf(FinishSess(T), v))>>]

\* ------------------------------------------------------------------ initial state
QuizConfigs ==
    [type : {QuizTypeSync, QuizTypeAsync},
     limits : {[i \in 1..TimedQuestions |-> LimitSec], [i \in 1..UntimedQuestions |-> 0],
               <<LimitSec, 0>>, <<LongLimitSec>>},
     max_score : 0..HighMaxScore]

Init ==
    /\ quiz \in QuizConfigs
    /\ instStatus = InstanceStatusWaiting
    /\ cached = FALSE
    /\ clients = {}
    /\ joins = [u \in Users |-> NoJoin]
    /\ resumes = [u \in Users |-> NoResume]
    /\ sess = [u \in Users |-> NoSession]
    /\ nSessions = 0
    /\ curIndex = 0
    /\ qStart = [key \in Keys |-> 0]
    /\ timers = [key \in Keys |-> NoTimer]
    /\ cbs = {}
    /\ fins = [u \in Users |-> NoFin]
    /\ now = 1
    /\ panicked = FALSE
    /\ nUnregister = 0
    /\ sent = NoMsgs
    /\ stalled = {}
    /\ pending = [u \in Users |-> 0]
    /\ closed = {}
    /\ crashed = FALSE

\* Client.SendMessage on the queues: every message of the step goes onto the
\* Send of its client.  The WritePump of a client that is not stalled takes
\* the messages off before the next step; on a stalled client they stay, and
\* the message that finds SendCapacity messages waiting closes Send instead.
\* Sending on a closed Send, and unregisterClient's close of a closed Send,
\* panic.
SendQueues ==
    /\ ~crashed
    /\ stalled' = stalled \cap clients'
    /\ pending' = [u \in Users |->
                      IF u \in stalled \cap clients'
                      THEN IF pending[u] + Len(sent'[u]) > SendCapacity
                           THEN SendCapacity
                           ELSE pending[u] + Len(sent'[u])
                      ELSE 0]
    /\ closed' = {u \in clients' :
                      \/ u \in closed
                      \/ u \in stalled /\ pending[u] + Len(sent'[u]) > SendCapacity}
    /\ crashed' = \E u \in Users :
                      \/ u \in closed /\ (sent'[u] # <<>> \/ u \notin clients')
                      \/ u \in stalled /\ pending[u] + Len(sent'[u]) > SendCapacity + 1

\* The WritePump of a client stops taking messages off Send: the connection
\* does not accept the write.
Stall(u) ==
    /\ ~panicked /\ ~crashed
    /\ u \in clients \ stalled
    /\ stalled' = stalled \cup {u}
    /\ sent' = NoMsgs
    /\ UNCHANGED <<quiz, instStatus, cached, clients, joins, resumes, sess,
                   nSessions, curIndex, qStart, timers, cbs, fins, now, panicked,
                   nUnregister, pending, closed, crashed>>

\* ------------------------------------------------------------------ registry
\* The order in which the users first connect: the creator, then a, then b
\* (the participants are interchangeable, and the creator's row is in no
\* leaderboard).
ConnectsInOrder(u) ==
    /\ u # Creator => sess[Creator].status # "none"
    /\ u = "b" => sess["a"].status # "none"

\* Hub.registerClient: the dispatcher adds the client and spawns its Join.
registerClient(u) ==
    /\ ~panicked
    /\ u \notin clients
    /\ joins[u].pc = "none" /\ resumes[u].pc = "none" /\ fins[u].pc = "none"
    /\ Cardinality({v \in Users : joins[v].pc # "none"}) < MaxJoining
    /\ ConnectsInOrder(u)
    /\ clients' = clients \cup {u}
    /\ joins' = [joins EXCEPT ![u] = [pc |-> "start", status |-> "", stale |-> FALSE]]
    /\ sent' = NoMsgs
    /\ UNCHANGED <<quiz, instStatus, cached, resumes, sess, nSessions, curIndex,
                   qStart, timers, cbs, fins, now, panicked, nUnregister>>
    /\ SendQueues

\* The goroutines and timers that hold the client of u now hold a closed client.
StaleTimers(tm, u) ==
    [key \in Keys |->
        IF key[1] = u /\ tm[key] # NoTimer THEN [tm[key] EXCEPT !.stale = TRUE] ELSE tm[key]]

StaleCallbacks(u) ==
    {IF cb.key[1] = u THEN [cb EXCEPT !.stale = TRUE] ELSE cb : cb \in cbs}

\* Hub.unregisterClient
unregisterClient(u) ==
    /\ ~panicked
    /\ u \in clients
    /\ nUnregister < MaxUnregister
    /\ nUnregister' = nUnregister + 1
    /\ clients' = clients \ {u}
    /\ joins' = [joins EXCEPT ![u] =
                    IF @.pc = "none" THEN @ ELSE [@ EXCEPT !.stale = TRUE]]
    /\ resumes' = [resumes EXCEPT ![u] =
                    IF @.pc = "none" THEN @ ELSE [@ EXCEPT !.stale = TRUE]]
    /\ fins' = [fins EXCEPT ![u] =
                    IF @.pc = "none" THEN @ ELSE [@ EXCEPT !.stale = TRUE]]
    /\ cbs' = StaleCallbacks(u)
    /\ IF clients' = {}
       THEN /\ timers' = cancelAllTimersForInstance(timers)
            /\ sent' = NoMsgs
       ELSE /\ timers' = StaleTimers(timers, u)
            /\ sent' = broadcastToInstance(clients',
                          <<ParticipantsUpdateMsg("left", u, Cardinality(clients'))>>)
    /\ UNCHANGED <<quiz, instStatus, cached, sess, nSessions, curIndex, qStart,
                   now, panicked>>
    /\ SendQueues

\* ------------------------------------------------------------------ Join
\* a Join that goes on to the session whatever the instance's status is
JoinFetchAnyStatus(u) ==
    /\ ~panicked
    /\ joins[u].pc = "start"
    /\ joins' = [joins EXCEPT ![u] = [@ EXCEPT !.pc = "got", !.status = instStatus]]
    /\ cached' = TRUE
    /\ sent' = NoMsgs
    /\ UNCHANGED <<quiz, instStatus, clients, resumes, sess, nSessions, curIndex,
                   qStart, timers, cbs, fins, now, panicked, nUnregister>>
    /\ SendQueues

\* Hub.handleJoin up to the caching of the quiz data: the instance is fetched.
JoinFetch(u) ==
    /\ ~panicked
    /\ joins[u].pc = "start"
    /\ IF instStatus = InstanceStatusFinished
       THEN /\ IF joins[u].stale
               THEN /\ joins' = [joins EXCEPT ![u] = NoJoin]
                    /\ panicked' = TRUE
                    /\ sent' = NoMsgs
               ELSE /\ joins' = [joins EXCEPT ![u] = [@ EXCEPT !.pc = "kick"]]
                    /\ sent' = ToClient(u, <<ErrorMsg("Quiz has already finished")>>)
                    /\ UNCHANGED panicked
            /\ UNCHANGED cached
       ELSE /\ joins' = [joins EXCEPT ![u] = [@ EXCEPT !.pc = "got", !.status = instStatus]]
            /\ cached' = TRUE
            /\ sent' = NoMsgs
            /\ UNCHANGED panicked
    /\ UNCHANGED nUnregister
    /\ UNCHANGED <<quiz, instStatus, clients, resumes, sess, nSessions, curIndex,
                   qStart, timers, cbs, fins, now>>
    /\ SendQueues

\* Hub.handleJoin when the Quiz Catalog's GetInstance returns an error.
JoinFetchFails(u) ==
    /\ ~panicked
    /\ joins[u].pc = "start"
    /\ joins' = [joins EXCEPT ![u] = NoJoin]
    /\ IF joins[u].stale
       THEN panicked' = TRUE /\ sent' = NoMsgs
       ELSE /\ sent' = ToClient(u, <<ErrorMsg("Failed to load quiz")>>)
            /\ UNCHANGED panicked
    /\ UNCHANGED <<quiz, instStatus, cached, clients, resumes, sess, nSessions,
                   curIndex, qStart, timers, cbs, fins, now, nUnregister>>
    /\ SendQueues

\* The goroutine handleJoin starts for a finished instance: 500 ms later it
\* hands the client to Hub.Unregister, and the dispatcher runs
\* unregisterClient, which does nothing for a client no longer registered.
JoinKick(u) ==
    /\ ~panicked
    /\ joins[u].pc = "kick"
    /\ joins' = [joins EXCEPT ![u] = NoJoin]
    /\ IF joins[u].stale
       THEN /\ sent' = NoMsgs
            /\ UNCHANGED <<clients, resumes, fins, cbs, timers>>
       ELSE /\ clients' = clients \ {u}
            /\ resumes' = [resumes EXCEPT ![u] =
                            IF @.pc = "none" THEN @ ELSE [@ EXCEPT !.stale = TRUE]]
            /\ fins' = [fins EXCEPT ![u] =
                            IF @.pc = "none" THEN @ ELSE [@ EXCEPT !.stale = TRUE]]
            /\ cbs' = StaleCallbacks(u)
            /\ IF clients' = {}
               THEN /\ timers' = cancelAllTimersForInstance(timers)
                    /\ sent' = NoMsgs
               ELSE /\ timers' = StaleTimers(timers, u)
                    /\ sent' = broadcastToInstance(clients',
                                  <<ParticipantsUpdateMsg("left", u, Cardinality(clients'))>>)
    /\ UNCHANGED <<quiz, instStatus, cached, sess, nSessions, curIndex, qStart,
                   now, panicked, nUnregister>>
    /\ SendQueues

NewSession(n) ==
    [status |-> SessionStatusJoined, current_question_index |-> 0, score |-> 0,
     answers |-> <<>>, started_at |-> n, finished_at |-> 0]

\* Hub.handleJoin from SessionExists on.
JoinSession(u) ==
    LET created == IF sess[u].status = "none"
                   THEN [sess EXCEPT ![u] = NewSession(nSessions + 1)]
                   ELSE sess
        active == joins[u].status = InstanceStatusActive
    IN
    /\ ~panicked
    /\ joins[u].pc = "got"
    /\ joins' = [joins EXCEPT ![u] = NoJoin]
    /\ nSessions' = IF sess[u].status = "none" THEN nSessions + 1 ELSE nSessions
    /\ IF joins[u].stale
       THEN /\ sess' = created
            /\ panicked' = TRUE
            /\ sent' = NoMsgs
            /\ UNCHANGED resumes
       ELSE /\ sess' = IF active /\ ~IsCreator(u)
                       THEN UpdateSessionStatus(created, u, SessionStatusInProgress)
                       ELSE created
            /\ resumes' = IF active THEN [resumes EXCEPT ![u] = [NoResume EXCEPT !.pc = "start"]]
                          ELSE resumes
            /\ sent' = Cat(ToClient(u, <<ConnectedMsg(joins[u].status)>>),
                           broadcastToInstance(clients,
                               <<ParticipantsUpdateMsg("joined", u, Cardinality(clients))>>))
            /\ UNCHANGED panicked
    /\ UNCHANGED nUnregister
    /\ UNCHANGED <<quiz, instStatus, cached, clients, curIndex, qStart, timers,
                   cbs, fins, now>>
    /\ SendQueues

\* ------------------------------------------------------------------ start_quiz
\* Hub.handleStartQuiz, run by the dispatcher for the creator's client.
handleStartQuiz(u) ==
    IF ~cached
    THEN /\ sent' = ToClient(u, <<ErrorMsg("Failed to start quiz")>>)
         /\ UNCHANGED <<instStatus, sess, qStart, timers>>
    ELSE LET T == IF quiz.type = QuizTypeSync THEN clients \ {Creator} ELSE {u}
             s1 == UpdateSessionStatus(sess, u, SessionStatusInProgress)
             s2 == [v \in Users |->
                      IF quiz.type = QuizTypeSync /\ v \in T /\ s1[v].status # "none"
                      THEN [s1[v] EXCEPT !.status = SessionStatusInProgress]
                      ELSE s1[v]]
         IN  /\ instStatus' = InstanceStatusActive
             /\ sess' = s2
             /\ qStart' = SQStart(T, 0)
             /\ timers' = SQTimers(T, 0)
             /\ sent' = IF quiz.type = QuizTypeSync
                        THEN Cat(broadcastToInstance(clients, <<QuizStartedMsg>>),
                                 Cat(SQSent(T, 0), notifyCreatorProgress(clients, s2, 0)))
                        ELSE Cat(ToClient(u, <<QuizStartedMsg>>), SQSent(T, 0))

StartQuiz(u) ==
    /\ ~panicked
    /\ u \in clients
    /\ IF IsCreator(u)
       THEN handleStartQuiz(u)
       ELSE /\ sent' = ToClient(u, <<ErrorMsg("Only the creator can start the quiz")>>)
            /\ UNCHANGED <<instStatus, sess, qStart, timers>>
    /\ UNCHANGED nUnregister
    /\ UNCHANGED <<quiz, cached, clients, joins, resumes, nSessions, curIndex, cbs,
                   fins, now, panicked>>
    /\ SendQueues

\* ------------------------------------------------------------------ answer
\* handleAnswer's row with the answer appended and the index moved, but the
\* score of the answer not added to the session's score
AnswerRowUncredited(row, qid, isCorrect, score, k) ==
    [row EXCEPT !.answers = Append(@, [question_id |-> qid, is_correct |-> isCorrect,
                                       score |-> score]),
                !.current_question_index = k + 1]

\* the session row handleAnswer writes: append, add the score, move the index
AnswerRow(row, qid, isCorrect, score, k) ==
    [row EXCEPT !.answers = Append(@, [question_id |-> qid, is_correct |-> isCorrect,
                                       score |-> score]),
                !.score = @ + score,
                !.current_question_index = k + 1]

\* the index of the question with this id, or -1 (question == nil)
FindQuestion(qid) == IF qid \in QIdx THEN qid ELSE -1

\* Hub.handleAnswer, run by the dispatcher.
handleAnswer(u, qid, answer) ==
    LET k == FindQuestion(qid)
        key == Key(u, k)
        startTime == IF qStart[key] = 0 THEN now ELSE qStart[key]
        timeSpentMs == IF now - startTime > 0 THEN (now - startTime) * 1000 ELSE 0
        timeLimitMs == TimeLimitSec(k) * 1000
        isCorrect == validateAnswer(answer, CorrectAnswer)
        score == IF isCorrect THEN calculateScore(MaxScore, timeSpentMs, timeLimitMs) ELSE 0
        row == AnswerRow(sess[u], qid, isCorrect, score, k)
        s1 == [sess EXCEPT ![u] = row]
        result == ToClient(u, <<AnswerResultMsg(isCorrect, score, row.score)>>)
    IN
    IF ~cached
    THEN /\ sent' = ToClient(u, <<ErrorMsg("Failed to process answer")>>)
         /\ UNCHANGED <<sess, qStart, timers>>
    ELSE IF k = -1
    THEN /\ sent' = ToClient(u, <<ErrorMsg("Question not found")>>)
         /\ UNCHANGED <<sess, qStart, timers>>
    ELSE IF TimeLimitSec(k) > 0 /\ timeSpentMs > timeLimitMs
    THEN /\ sent' = ToClient(u, <<ErrorMsg("Time limit exceeded")>>)
         /\ UNCHANGED <<sess, qStart, timers>>
    ELSE IF sess[u].status = "none"
    THEN /\ sent' = ToClient(u, <<ErrorMsg("Failed to save answer")>>)
         /\ UNCHANGED <<sess, qStart, timers>>
    ELSE IF quiz.type = QuizTypeSync
    THEN /\ sess' = s1
         /\ UNCHANGED qStart
         /\ IF checkAllParticipantsAnswered(s1, k)
            THEN /\ timers' = cancelQuestionTimer(timers, <<"*", k>>)
                 /\ sent' = Cat(result,
                              Cat(broadcastToInstance(clients, <<LeaderboardMsg(getLeaderboard(s1))>>),
                                  showLeaderboardAndWait(clients, s1, k)))
            ELSE /\ UNCHANGED timers
                 /\ sent' = Cat(result,
                              Cat(broadcastToInstance(clients, <<LeaderboardMsg(getLeaderboard(s1))>>),
                                  notifyCreatorProgress(clients, s1, k)))
    ELSE IF k + 1 >= NumQuestions
    THEN LET s2 == [s1 EXCEPT ![u] = FinishedRow(row)]
         IN  /\ sess' = s2
             /\ UNCHANGED qStart
             /\ timers' = cancelQuestionTimer(timers, <<u, k>>)
             /\ sent' = Cat(result, ToClient(u, <<QuizFinishedMsg(row.score, RankOf(s2, u))>>))
    ELSE /\ sess' = s1
         /\ qStart' = SQStart({u}, k + 1)
         /\ timers' = cancelQuestionTimer(SQTimers({u}, k + 1), <<u, k>>)
         /\ sent' = Cat(result, SQSent({u}, k + 1))

TotalAnswers ==
    LET F[S \in SUBSET Users] ==
            IF S = {} THEN 0
            ELSE LET v == CHOOSE x \in S : TRUE
                 IN  Len(sess[v].answers) + F[S \ {v}]
    IN  F[Users]

Answer(u, qid, answer) ==
    /\ ~panicked
    /\ u \in clients
    /\ TotalAnswers < MaxAnswers
    /\ handleAnswer(u, qid, answer)
    /\ UNCHANGED nUnregister
    /\ UNCHANGED <<quiz, instStatus, cached, clients, joins, resumes, nSessions,
                   curIndex, cbs, fins, now, panicked>>
    /\ SendQueues

\* ------------------------------------------------------------------ continue
\* nextQuestionIndex: the index of the first non-creator row of the ordered rows
NextQuestionIndex(s) ==
    LET all == GetSessionsByInstance(s)
        others == SelectSeq(all, LAMBDA v : v # Creator)
    IN  IF Len(others) = 0 THEN 0 ELSE s[others[1]].current_question_index

\* the value handleContinue stores under quiz:<instance>:current_index
ContinueIndex(old, next) == IF quiz.type = QuizTypeSync THEN next ELSE old

\* Hub.handleContinue, run by the dispatcher for the creator's client.
handleContinue(u) ==
    LET next == NextQuestionIndex(sess)
        T == clients \ {Creator}
    IN
    IF ~cached
    THEN /\ sent' = ToClient(u, <<ErrorMsg("Failed to continue")>>)
         /\ UNCHANGED <<instStatus, sess, curIndex, qStart, timers>>
    ELSE IF \A v \in Users : sess[v].status = "none"
    THEN /\ sent' = ToClient(u, <<ErrorMsg("No active sessions")>>)
         /\ UNCHANGED <<instStatus, sess, curIndex, qStart, timers>>
    ELSE IF next >= NumQuestions
    THEN /\ instStatus' = InstanceStatusFinished
         /\ sess' = FinishSess(clients)
         /\ sent' = FinishSent(clients)
         /\ UNCHANGED <<curIndex, qStart, timers>>
    ELSE /\ curIndex' = ContinueIndex(curIndex, next)
         /\ qStart' = SQStart(T, next)
         /\ timers' = SQTimers(T, next)
         /\ sent' = Cat(SQSent(T, next), notifyCreatorProgress(clients, sess, next))
         /\ UNCHANGED <<instStatus, sess>>

Continue(u) ==
    /\ ~panicked
    /\ u \in clients
    /\ IF IsCreator(u)
       THEN handleContinue(u)
       ELSE /\ sent' = ToClient(u, <<ErrorMsg("Only the creator can continue")>>)
            /\ UNCHANGED <<instStatus, sess, curIndex, qStart, timers>>
    /\ UNCHANGED nUnregister
    /\ UNCHANGED <<quiz, cached, clients, joins, resumes, nSessions, cbs, fins,
                   now, panicked>>
    /\ SendQueues

\* ------------------------------------------------------------------ goroutines
\* finishQuiz run by a goroutine: the row is read here and written by FinishWrite.
FinishRead(u, stale) == [pc |-> "write", session |-> sess[u], stale |-> stale]

\* sendQuestion(client, k) run by a goroutine that holds the client of u
\* (a Resume or an async timer callback), after the messages `before`.
GoSendQuestion(u, k, stale, before) ==
    IF k >= NumQuestions
    THEN /\ fins[u].pc = "none"
         /\ IF sess[u].status = "none"
            THEN /\ IF stale THEN panicked' = TRUE /\ sent' = NoMsgs
                    ELSE /\ sent' = Cat(before, ToClient(u, <<ErrorMsg("Failed to finish quiz")>>))
                         /\ UNCHANGED panicked
                 /\ UNCHANGED fins
            ELSE /\ fins' = [fins EXCEPT ![u] = FinishRead(u, stale)]
                 /\ sent' = before
                 /\ UNCHANGED panicked
         /\ UNCHANGED <<qStart, timers>>
    ELSE IF stale
    THEN /\ panicked' = TRUE
         /\ qStart' = SQStart({u}, k)
         /\ sent' = NoMsgs
         /\ UNCHANGED <<timers, fins>>
    ELSE /\ qStart' = SQStart({u}, k)
         /\ timers' = SQTimers({u}, k)
         /\ sent' = Cat(before, SQSent({u}, k))
         /\ UNCHANGED <<fins, panicked>>

\* finishQuiz of a goroutine, from UpdateSession on.
FinishWrite(u) ==
    LET s1 == [sess EXCEPT ![u] = FinishedRow(fins[u].session)]
    IN
    /\ ~panicked
    /\ fins[u].pc = "write"
    /\ fins' = [fins EXCEPT ![u] = NoFin]
    /\ sess' = s1
    /\ IF fins[u].stale
       THEN panicked' = TRUE /\ sent' = NoMsgs
       ELSE /\ sent' = ToClient(u, <<QuizFinishedMsg(fins[u].session.score, RankOf(s1, u))>>)
            /\ UNCHANGED panicked
    /\ UNCHANGED nUnregister
    /\ UNCHANGED <<quiz, instStatus, cached, clients, joins, resumes, nSessions,
                   curIndex, qStart, timers, cbs, now>>
    /\ SendQueues

\* Hub.handleResumeQuiz, the sync branch after current_index is read: the
\* goroutine holds currentIndex and the session's index it read.  Every send
\* to a closed client panics; the creator's progress notice goes to the
\* creator's registered client.
ResumeSync(u, currentIndex, index, stale) ==
    LET startTime == qStart[<<"*", currentIndex>>]
        isTimeExpired == /\ startTime > 0
                         /\ TimeLimitSec(currentIndex) > 0
                         /\ now - startTime > TimeLimitSec(currentIndex)
        allAnswered == checkAllParticipantsAnswered(sess, currentIndex)
        board == <<LeaderboardMsg(getLeaderboard(sess))>>
        sendsQuestion == ~IsCreator(u) /\ index <= currentIndex /\ ~isTimeExpired
    IN
    IF IsCreator(u) /\ ~(isTimeExpired \/ allAnswered)
    THEN /\ sent' = notifyCreatorProgress(clients, sess, currentIndex)
         /\ UNCHANGED <<qStart, timers, panicked>>
    ELSE IF stale
    THEN /\ panicked' = TRUE
         /\ qStart' = IF sendsQuestion THEN SQStart({u}, currentIndex) ELSE qStart
         /\ sent' = NoMsgs
         /\ UNCHANGED timers
    ELSE IF IsCreator(u)
    THEN /\ sent' = ToClient(u, board \o <<WaitingMsg(currentIndex, "Waiting for continue command")>>)
         /\ UNCHANGED <<qStart, timers, panicked>>
    ELSE IF index > currentIndex
    THEN /\ sent' = ToClient(u, board \o <<WaitingMsg(currentIndex, "Waiting for next question")>>)
         /\ UNCHANGED <<qStart, timers, panicked>>
    ELSE IF isTimeExpired
    THEN /\ sent' = ToClient(u, board \o <<TimeExpiredMsg(currentIndex),
                                           WaitingMsg(currentIndex, "Time expired")>>)
         /\ UNCHANGED <<qStart, timers, panicked>>
    ELSE /\ qStart' = SQStart({u}, currentIndex)
         /\ timers' = SQTimers({u}, currentIndex)
         /\ sent' = SQSent({u}, currentIndex)
         /\ UNCHANGED panicked

\* The Resume goroutine Join starts 100 ms after it ends: Hub.handleResumeQuiz
\* up to the read of current_index (sync), or all of it (async).
Resume(u) ==
    /\ ~panicked
    /\ resumes[u].pc = "start"
    /\ IF sess[u].status = "none"
       THEN /\ resumes' = [resumes EXCEPT ![u] = NoResume]
            /\ sent' = NoMsgs
            /\ UNCHANGED <<qStart, timers, fins, panicked>>
       ELSE IF quiz.type = QuizTypeAsync
       THEN /\ resumes' = [resumes EXCEPT ![u] = NoResume]
            /\ GoSendQuestion(u, sess[u].current_question_index, resumes[u].stale, NoMsgs)
       ELSE /\ resumes' = [resumes EXCEPT ![u] =
                              [@ EXCEPT !.pc = "read", !.currentIndex = curIndex,
                                        !.index = sess[u].current_question_index]]
            /\ sent' = NoMsgs
            /\ UNCHANGED <<qStart, timers, fins, panicked>>
    /\ UNCHANGED nUnregister
    /\ UNCHANGED <<quiz, instStatus, cached, clients, joins, sess, nSessions,
                   curIndex, cbs, now>>
    /\ SendQueues

\* Hub.handleResumeQuiz, the sync branch from the read of the question's start on.
ResumeSend(u) ==
    /\ ~panicked
    /\ resumes[u].pc = "read"
    /\ resumes' = [resumes EXCEPT ![u] = NoResume]
    /\ ResumeSync(u, resumes[u].currentIndex, resumes[u].index, resumes[u].stale)
    /\ UNCHANGED nUnregister
    /\ UNCHANGED <<quiz, instStatus, cached, clients, joins, sess, nSessions,
                   curIndex, cbs, fins, now>>
    /\ SendQueues

\* Hub.handleResumeQuiz of the creator, sync, while the question is open, up
\* to the first lines of notifyCreatorProgress: the set of the instance's
\* clients is taken from the registry under the read lock, and the lock is
\* released.
ResumeLookup(u) ==
    LET currentIndex == resumes[u].currentIndex
        startTime == qStart[<<"*", currentIndex>>]
        isTimeExpired == /\ startTime > 0
                         /\ TimeLimitSec(currentIndex) > 0
                         /\ now - startTime > TimeLimitSec(currentIndex)
        allAnswered == checkAllParticipantsAnswered(sess, currentIndex)
    IN
    /\ ~panicked
    /\ resumes[u].pc = "read"
    /\ IsCreator(u) /\ ~(isTimeExpired \/ allAnswered)
    /\ resumes' = [resumes EXCEPT ![u] = [@ EXCEPT !.pc = "iterate", !.seen = clients]]
    /\ sent' = NoMsgs
    /\ UNCHANGED <<quiz, instStatus, cached, clients, joins, sess, nSessions,
                   curIndex, qStart, timers, cbs, fins, now, panicked, nUnregister>>
    /\ SendQueues

\* Hub.notifyCreatorProgress from its loop on: the set is iterated without
\* the lock.  When the dispatcher has written the set since it was taken the
\* iteration races with the write: the runtime either ends the process
\* (concurrent map iteration and map write) or the loop goes through the set
\* as it is now.
ResumeNotify(u) ==
    /\ ~panicked
    /\ resumes[u].pc = "iterate"
    /\ resumes' = [resumes EXCEPT ![u] = NoResume]
    /\ \/ /\ sent' = notifyCreatorProgress(clients, sess, resumes[u].currentIndex)
          /\ UNCHANGED panicked
       \/ /\ resumes[u].seen # clients
          /\ panicked' = TRUE
          /\ sent' = NoMsgs
    /\ UNCHANGED <<quiz, instStatus, cached, clients, joins, sess, nSessions,
                   curIndex, qStart, timers, cbs, fins, now, nUnregister>>
    /\ SendQueues

\* ------------------------------------------------------------------ timers
\* No goroutine is between two of its steps and no timer is overdue: a second
\* is long against the time a goroutine takes.
Quiescent ==
    /\ \A u \in Users : joins[u].pc = "none" /\ resumes[u].pc = "none" /\ fins[u].pc = "none"
    /\ cbs = {}
    /\ \A key \in Keys : timers[key] = NoTimer \/ timers[key].deadline > now

\* The clock advances by a second, up to the second `last`.
TickTo(last) ==
    /\ ~panicked
    /\ now < last
    /\ \E key \in Keys : qStart[key] # 0
    /\ Quiescent
    /\ now' = now + 1
    /\ sent' = NoMsgs
    /\ UNCHANGED nUnregister
    /\ UNCHANGED <<quiz, instStatus, cached, clients, joins, resumes, sess,
                   nSessions, curIndex, qStart, timers, cbs, fins, panicked>>
    /\ SendQueues

Tick == TickTo(MaxTime)

\* A pending timer expires: its callback starts in a goroutine of its own, and
\* Stop no longer prevents it.
TimerFire(key) ==
    /\ ~panicked
    /\ timers[key] # NoTimer
    /\ now >= timers[key].deadline
    /\ timers' = [timers EXCEPT ![key] = NoTimer]
    /\ cbs' = cbs \cup {[key |-> key, stale |-> timers[key].stale]}
    /\ sent' = NoMsgs
    /\ UNCHANGED nUnregister
    /\ UNCHANGED <<quiz, instStatus, cached, clients, joins, resumes, sess,
                   nSessions, curIndex, qStart, fins, now, panicked>>
    /\ SendQueues

\* Hub.handleQuestionTimeout
handleQuestionTimeout(cb) ==
    LET u == cb.key[1]
        k == cb.key[2]
    IN
    IF quiz.type = QuizTypeSync
    THEN /\ sent' = Cat(broadcastToParticipants(clients, <<TimeExpiredMsg(k)>>),
                        showLeaderboardAndWait(clients, sess, k))
         /\ UNCHANGED <<qStart, timers, fins, panicked>>
    ELSE IF cb.stale
    THEN /\ panicked' = TRUE
         /\ sent' = NoMsgs
         /\ UNCHANGED <<qStart, timers, fins>>
    ELSE GoSendQuestion(u, k + 1, FALSE, ToClient(u, <<TimeExpiredMsg(k)>>))

CallbackRun(cb) ==
    /\ ~panicked
    /\ cb \in cbs
    /\ cbs' = cbs \ {cb}
    /\ handleQuestionTimeout(cb)
    /\ UNCHANGED nUnregister
    /\ UNCHANGED <<quiz, instStatus, cached, clients, joins, resumes, sess,
                   nSessions, curIndex, now>>
    /\ SendQueues

\* ------------------------------------------------------------------ specification
\* What the clients and their goroutines do, with the users U connecting and
\* the users L among them disconnecting.  start_quiz and continue come from
\* the creator, answers from the participants.
ClientSteps(U, L) ==
    \/ \E u \in U : registerClient(u)
    \/ \E u \in L : unregisterClient(u)
    \/ \E u \in Users : JoinFetch(u)
    \/ \E u \in Users : JoinSession(u)
    \/ StartQuiz(Creator)
    \/ \E u \in Participants, qid \in QIdx : Answer(u, qid, CorrectAnswer)
    \/ Continue(Creator)
    \/ \E u \in Users : Resume(u)

\* The messages ClientSteps leaves out: start_quiz and continue from a
\* participant, answers from the creator, wrong answers, and answers for an
\* id that is no question's.
OtherMessages ==
    \/ \E u \in Participants : StartQuiz(u)
    \/ \E u \in Participants : Continue(u)
    \/ \E u \in Users, qid \in QIdx \cup {NumQuestions}, answer \in AnswerTexts :
          Answer(u, qid, answer)

\* The question timers and the clock.
TimerSteps ==
    \/ \E key \in Keys : TimerFire(key)
    \/ \E cb \in cbs : CallbackRun(cb)
    \/ Tick

TimedQuiz(type) ==
    [type |-> type, limits |-> [i \in 1..TimedQuestions |-> LimitSec], max_score |-> QMaxScore]
UntimedQuiz(type) ==
    [type |-> type, limits |-> [i \in 1..UntimedQuestions |-> 0], max_score |-> QMaxScore]
\* a question with a time limit, then one without
MixedQuiz(type) == [type |-> type, limits |-> <<LimitSec, 0>>, max_score |-> QMaxScore]

\* A synchronous quiz with time limits, where participant a may disconnect:
\* finishQuiz runs on the dispatcher only.
InitSync == Init /\ quiz = TimedQuiz(QuizTypeSync)
NextSync ==
    \/ ClientSteps(Users, {"a"})
    \/ \E u \in Users : ResumeSend(u)
    \/ TimerSteps
SpecSync == InitSync /\ [][NextSync]_vars

\* An asynchronous quiz with time limits, the creator and one participant.
InitAsync == Init /\ quiz = TimedQuiz(QuizTypeAsync)
NextAsync ==
    \/ ClientSteps({Creator, "a"}, {"a"})
    \/ TimerSteps
    \/ \E u \in Users : FinishWrite(u)
    \/ \E u \in Users : JoinKick(u)
SpecAsync == InitAsync /\ [][NextAsync]_vars

\* A synchronous quiz without time limits, the creator and one participant,
\* with every message a client can send: no timer is ever installed.
InitUntimed == Init /\ quiz = UntimedQuiz(QuizTypeSync)
NextUntimed ==
    \/ ClientSteps({Creator, "a"}, {Creator, "a"})
    \/ OtherMessages
    \/ \E u \in Users : ResumeSend(u)
    \/ \E u \in Users : JoinKick(u)
SpecUntimed == InitUntimed /\ [][NextUntimed]_vars

\* A quiz with time limits of either type, the creator and one participant
\* who may disconnect and connect again.
InitReconnect == Init /\ quiz \in {TimedQuiz(QuizTypeSync), TimedQuiz(QuizTypeAsync)}
NextReconnect ==
    \/ ClientSteps({Creator, "a"}, {"a"})
    \/ \E u \in Users : ResumeSend(u)
    \/ TimerSteps
    \/ \E u \in Users : FinishWrite(u)
    \/ \E u \in Users : JoinKick(u)
SpecReconnect == InitReconnect /\ [][NextReconnect]_vars

\* A quiz of either type with a timed and an untimed question, the creator
\* and one participant who stay connected, right and wrong answers, a Quiz
\* Catalog that may fail, and a clock that runs a second longer, so that a
\* time limit can be exceeded.
LateTime == MaxTime + 1
InitScoring == Init /\ quiz \in {MixedQuiz(QuizTypeSync), MixedQuiz(QuizTypeAsync)}
NextScoring ==
    \/ \E u \in {Creator, "a"} : registerClient(u)
    \/ \E u \in Users : JoinFetch(u)
    \/ \E u \in Users : JoinFetchFails(u)
    \/ \E u \in Users : JoinSession(u)
    \/ StartQuiz(Creator)
    \/ \E qid \in QIdx, answer \in AnswerTexts : Answer("a", qid, answer)
    \/ Continue(Creator)
    \/ \E u \in Users : Resume(u)
    \/ \E u \in Users : ResumeSend(u)
    \/ \E key \in Keys : TimerFire(key)
    \/ \E cb \in cbs : CallbackRun(cb)
    \/ TickTo(LateTime)
    \/ \E u \in Users : FinishWrite(u)
SpecScoring == InitScoring /\ [][NextScoring]_vars

\* An asynchronous quiz with time limits, the creator and both participants,
\* who stay connected: every participant answers and times out on its own.
InitIndependent == Init /\ quiz = TimedQuiz(QuizTypeAsync)
NextIndependent ==
    \/ \E u \in Users : registerClient(u)
    \/ \E u \in Users : JoinFetch(u)
    \/ \E u \in Users : JoinSession(u)
    \/ StartQuiz(Creator)
    \/ \E u \in Participants, qid \in QIdx : Answer(u, qid, CorrectAnswer)
    \/ \E u \in Users : Resume(u)
    \/ \E u \in Users : FinishWrite(u)
    \/ TimerSteps
SpecIndependent == InitIndependent /\ [][NextIndependent]_vars

\* A quiz with time limits of either type that is started and never
\* continued, the creator and one participant, either of whom may disconnect:
\* the last client can leave while a timer is pending.
InitLeaving == Init /\ quiz \in {TimedQuiz(QuizTypeSync), TimedQuiz(QuizTypeAsync)}
NextLeaving ==
    \/ \E u \in {Creator, "a"} : registerClient(u)
    \/ \E u \in {Creator, "a"} : unregisterClient(u)
    \/ \E u \in Users : JoinFetch(u)
    \/ \E u \in Users : JoinSession(u)
    \/ StartQuiz(Creator)
    \/ \E qid \in QIdx : Answer("a", qid, CorrectAnswer)
    \/ \E u \in Users : Resume(u)
    \/ \E u \in Users : ResumeSend(u)
    \/ \E u \in Users : FinishWrite(u)
    \/ TimerSteps
SpecLeaving == InitLeaving /\ [][NextLeaving]_vars

\* ------------------------------------------------------------------ connection
\* The instance of the model and its access code; a request may name others.
InstanceId == "inst"
AccessCode == "code"

\* A connection request: the X-User-ID header ("" when missing), the
\* instance_id and access_code query parameters ("" when missing), and what
\* the Quiz Catalog holds about it: whether its call fails, and whether the
\* caller has access to the instance.
Requests ==
    [user : Users \cup {""},
     instance_id : {"", InstanceId, "other"},
     access_code : {"", AccessCode, "wrong"},
     fails : BOOLEAN,
     has_access : BOOLEAN]

StatusSwitchingProtocols == 101
StatusBadRequest == 400
StatusUnauthorized == 401
StatusForbidden == 403
StatusNotFound == 404
StatusInternalServerError == 500

\* QuizService.GetInstance: an error when the call fails or no instance has
\* the id, the instance otherwise; the caller's access is not looked at.
GetInstance(req) ==
    IF req.fails \/ req.instance_id # InstanceId THEN "error" ELSE "found"

\* The Quiz Catalog's GetInstanceByAccessCode: an error, no instance, or the
\* instance with HasAccess.
GetInstanceByAccessCode(req) ==
    IF req.fails THEN "error"
    ELSE IF req.access_code # AccessCode THEN "nil"
    ELSE IF req.has_access THEN "found" ELSE "denied"

\* WebSocketHandler.HandleWebSocket: the HTTP status of the answer.
HandleWebSocketStatus(req) ==
    IF req.user = "" THEN StatusUnauthorized
    ELSE IF req.instance_id = "" /\ req.access_code = "" THEN StatusBadRequest
    ELSE IF req.instance_id = ""
    THEN CASE GetInstanceByAccessCode(req) = "error" -> StatusInternalServerError
           [] GetInstanceByAccessCode(req) = "nil" -> StatusNotFound
           [] GetInstanceByAccessCode(req) = "denied" -> StatusForbidden
           [] OTHER -> StatusSwitchingProtocols
    ELSE CASE GetInstance(req) = "error" -> StatusInternalServerError
           [] OTHER -> StatusSwitchingProtocols

\* WebSocketHandler.HandleWebSocket: the request is answered with an error
\* status, or the connection is upgraded and its client handed to the Hub.
HandleWebSocket(req) ==
    IF HandleWebSocketStatus(req) = StatusSwitchingProtocols
    THEN registerClient(req.user)
    ELSE /\ ~panicked
         /\ sent' = NoMsgs
         /\ UNCHANGED <<quiz, instStatus, cached, clients, joins, resumes, sess,
                        nSessions, curIndex, qStart, timers, cbs, fins, now,
                        panicked, nUnregister, stalled, pending, closed, crashed>>

\* A synchronous quiz without time limits where every client comes in through
\* a connection request.
InitConnect == Init /\ quiz = UntimedQuiz(QuizTypeSync)
NextConnect ==
    \/ \E req \in Requests : HandleWebSocket(req)
    \/ \E u \in Participants : unregisterClient(u)
    \/ \E u \in Users : JoinFetch(u)
    \/ \E u \in Users : JoinSession(u)
    \/ StartQuiz(Creator)
    \/ \E u \in Participants, qid \in QIdx : Answer(u, qid, CorrectAnswer)
    \/ \E u \in Users : Resume(u)
    \/ \E u \in Users : ResumeSend(u)
SpecConnect == InitConnect /\ [][NextConnect]_vars

\* A synchronous quiz without time limits where the connection of a
\* participant may stop accepting writes while the others come, go and start
\* the quiz.
InitOverflow == Init /\ quiz = UntimedQuiz(QuizTypeSync)
NextOverflow ==
    \/ \E u \in Users : registerClient(u)
    \/ \E u \in Users : unregisterClient(u)
    \/ \E u \in Users : JoinFetch(u)
    \/ \E u \in Users : JoinSession(u)
    \/ \E u \in Participants : Stall(u)
    \/ StartQuiz(Creator)
    \/ \E u \in Users : Resume(u)
    \/ \E u \in Users : ResumeSend(u)
SpecOverflow == InitOverflow /\ [][NextOverflow]_vars

\* A synchronous quiz without time limits where the creator may leave and
\* come back, with the creator's resume taken in the steps of its locking.
InitRace == Init /\ quiz = UntimedQuiz(QuizTypeSync)
NextRace ==
    \/ \E u \in {Creator, "a"} : registerClient(u)
    \/ unregisterClient(Creator)
    \/ \E u \in Users : JoinFetch(u)
    \/ \E u \in Users : JoinSession(u)
    \/ StartQuiz(Creator)
    \/ \E qid \in QIdx : Answer("a", qid, CorrectAnswer)
    \/ \E u \in Users : Resume(u)
    \/ \E u \in Users : ResumeSend(u)
    \/ \E u \in Users : ResumeLookup(u)
    \/ \E u \in Users : ResumeNotify(u)
SpecRace == InitRace /\ [][NextRace]_vars

\* The current question of a sync instance has concluded: it was sent, and
\* its timer is gone (cancelled when all had answered, or expired with its
\* callback run).
QuestionConcluded ==
    /\ instStatus = InstanceStatusActive
    /\ qStart[<<"*", curIndex>>] # 0
    /\ timers[<<"*", curIndex>>] = NoTimer
    /\ \A cb \in cbs : cb.key # <<"*", curIndex>>

\* The creator sends continue once the question has concluded.
ContinueWhenConcluded == QuestionConcluded /\ Continue(Creator)

\* The creator starts the quiz, once.
StartWaiting == instStatus = InstanceStatusWaiting /\ StartQuiz(Creator)

\* A synchronous quiz with time limits where participant a stays connected
\* and never answers while participant b may answer, and the creator starts
\* the quiz once and continues after every question.  The goroutines and the
\* timer callbacks get to run, the clock advances, and the creator sends
\* continue whenever a question has concluded.
InitPatient == Init /\ quiz = TimedQuiz(QuizTypeSync)
NextPatient ==
    \/ \E u \in Users : registerClient(u)
    \/ \E u \in Users : JoinFetch(u)
    \/ \E u \in Users : JoinSession(u)
    \/ StartWaiting
    \/ \E qid \in QIdx, answer \in AnswerTexts : Answer("b", qid, answer)
    \/ ContinueWhenConcluded
    \/ \E u \in Users : Resume(u)
    \/ \E u \in Users : ResumeSend(u)
    \/ TimerSteps
FairPatient ==
    /\ \A u \in Users : WF_vars(JoinFetch(u))
    /\ \A u \in Users : WF_vars(JoinSession(u))
    /\ \A u \in Users : WF_vars(Resume(u))
    /\ \A u \in Users : WF_vars(ResumeSend(u))
    /\ WF_vars(TimerSteps)
    /\ WF_vars(ContinueWhenConcluded)
SpecPatient == InitPatient /\ [][NextPatient]_vars /\ FairPatient

\* An asynchronous quiz with time limits where the creator and participant a
\* connect and the creator starts the quiz once.  The goroutines and the timer
\* callbacks get to run, and the clock runs long enough for the creator to
\* time out on every question.
InitAsyncStart == Init /\ quiz = TimedQuiz(QuizTypeAsync)
NextAsyncStart ==
    \/ \E u \in {Creator, "a"} : registerClient(u)
    \/ \E u \in Users : JoinFetch(u)
    \/ \E u \in Users : JoinSession(u)
    \/ StartWaiting
    \/ \E u \in Users : Resume(u)
    \/ \E u \in Users : FinishWrite(u)
    \/ \E key \in Keys : TimerFire(key)
    \/ \E cb \in cbs : CallbackRun(cb)
    \/ TickTo(LateTime)
FairAsyncStart ==
    /\ \A u \in Users : WF_vars(JoinFetch(u))
    /\ \A u \in Users : WF_vars(JoinSession(u))
    /\ \A u \in Users : WF_vars(Resume(u))
    /\ \A u \in Users : WF_vars(FinishWrite(u))
    /\ WF_vars(\E key \in Keys : TimerFire(key))
    /\ WF_vars(\E cb \in cbs : CallbackRun(cb))
    /\ WF_vars(TickTo(LateTime))
SpecAsyncStart == InitAsyncStart /\ [][NextAsyncStart]_vars /\ FairAsyncStart

\* A quiz of one question with a long time limit and any max_score up to
\* HighMaxScore: the creator and participant a, who answers at any second of
\* the limit or lets the timer expire.
LastSecond == 1 + LongLimitSec
LongQuiz(type, maxScore) == [type |-> type, limits |-> <<LongLimitSec>>, max_score |-> maxScore]
InitTimedAnswer ==
    Init /\ \E maxScore \in {1, QMaxScore, HighMaxScore} : quiz = LongQuiz(QuizTypeSync, maxScore)
NextTimedAnswer ==
    \/ \E u \in {Creator, "a"} : registerClient(u)
    \/ \E u \in Users : JoinFetch(u)
    \/ \E u \in Users : JoinSession(u)
    \/ StartWaiting
    \/ \E qid \in QIdx, answer \in AnswerTexts : Answer("a", qid, answer)
    \/ Continue(Creator)
    \/ \E u \in Users : Resume(u)
    \/ \E u \in Users : ResumeSend(u)
    \/ \E key \in Keys : TimerFire(key)
    \/ \E cb \in cbs : CallbackRun(cb)
    \/ TickTo(LastSecond)
SpecTimedAnswer == InitTimedAnswer /\ [][NextTimedAnswer]_vars

\* ------------------------------------------------------------------ properties
\* C1: while the instance is active, a step never appends to a participant's
\* session an answer for a question the session already holds an answer for:
\* a repeated answer is rejected and credited once.
C1_RepeatedAnswerRejected ==
    [][\A u \in Participants :
          instStatus = InstanceStatusActive /\ Len(sess'[u].answers) > Len(sess[u].answers) =>
              \A i \in 1..Len(sess[u].answers) :
                  sess[u].answers[i].question_id #
                      sess'[u].answers[Len(sess'[u].answers)].question_id]_vars

\* C2: in every reachable state no participant's answers hold two entries
\* with the same question_id.
C2_NoDuplicateAnswers ==
    \A u \in Participants :
        \A i, j \in 1..Len(sess[u].answers) :
            i # j => sess[u].answers[i].question_id # sess[u].answers[j].question_id

\* C3: no step lowers the current_question_index of a participant's session.
C3_IndexNeverDecreases ==
    [][\A u \in Participants :
          sess'[u].current_question_index >= sess[u].current_question_index]_vars

\* C4: in every reachable state every session's score is the sum of the
\* scores of its answers.
C4_ScoreIsSumOfAnswers ==
    \A u \in Users : sess[u].score = SumScores(sess[u].answers)

\* C4, reached: handleAnswer has just credited a participant's second correct
\* answer, reported the total in answer_result and finished the session.
C4_TwoAnswersCredited ==
    \E u \in Participants :
        /\ sess[u].status = SessionStatusFinished
        /\ Len(sess[u].answers) = 2
        /\ sess[u].answers[1].score > 0 /\ sess[u].answers[2].score > 0
        /\ sess[u].score = sess[u].answers[1].score + sess[u].answers[2].score
        /\ \E i \in 1..Len(sent[u]) :
              /\ sent[u][i].type = "answer_result"
              /\ sent[u][i].total_score = sess[u].score
        /\ \E i \in 1..Len(sent[u]) : sent[u][i].type = "quiz_finished"

\* C5: no step lowers the score of a participant's session, whatever the
\* interleaving of the dispatcher's handleAnswer and a goroutine's finishQuiz.
C5_ScoreNeverDecreases ==
    [][\A u \in Participants : sess'[u].score >= sess[u].score]_vars

\* C6: the instance's status changes only from waiting to active and from
\* active to finished.
C6_InstanceStatusForward ==
    [][instStatus' # instStatus =>
          \/ instStatus = InstanceStatusWaiting /\ instStatus' = InstanceStatusActive
          \/ instStatus = InstanceStatusActive /\ instStatus' = InstanceStatusFinished]_vars

\* C7: the status of a participant's session moves only forward along joined,
\* in_progress, finished: a finished session stays finished and an
\* in_progress one never goes back to joined.
C7_SessionStatusForward ==
    [][\A u \in Participants :
          /\ sess[u].status = SessionStatusFinished =>
                 sess'[u].status = SessionStatusFinished
          /\ sess[u].status = SessionStatusInProgress =>
                 sess'[u].status \in {SessionStatusInProgress, SessionStatusFinished}]_vars

\* C8: in a sync instance the advancement broadcast of a question k (the
\* leaderboard, then waiting_for_creator{k} "All participants answered") is
\* not emitted again by the step after the one that emitted it: it is emitted
\* once per question.
C8_AdvancementEmittedOnce ==
    [][\A k \in QIdx : \A u \in Participants :
          (\E i \in 1..Len(sent[u]) :
               sent[u][i] = WaitingMsg(k, "All participants answered"))
          => ~(\E j \in 1..Len(sent'[u]) :
                   sent'[u][j] = WaitingMsg(k, "All participants answered"))]_vars

\* C9: in a sync instance, once the answer that makes all participants have
\* answered question k is accepted, the timer of k is cancelled: neither the
\* timer nor a callback of it is left to emit time_expired{k}.
C9_TimerCancelledWhenAllAnswered ==
    \A k \in QIdx :
        (\E u \in Participants :
            /\ \E i \in 1..Len(sent[u]) : sent[u][i].type = "answer_result"
            /\ \E j \in 1..Len(sent[u]) :
                   sent[u][j] = WaitingMsg(k, "All participants answered"))
        => /\ timers[<<"*", k>>] = NoTimer
           /\ \A cb \in cbs : cb.key # <<"*", k>>

\* C10: in a sync instance no participant is sent a question whose
\* question_index is above the cached current_index.
C10_NoQuestionAheadOfCurrentIndex ==
    \A u \in Participants :
        \A i \in 1..Len(sent[u]) :
            sent[u][i].type = "question" => sent[u][i].question_index <= curIndex

\* C11: when the dispatcher handles a creator's continue in a sync instance
\* with participant sessions, the index it advances to is the minimum
\* current_question_index of the participants' sessions: it becomes
\* current_index, or the instance finishes when that minimum is past the
\* last question.
C11_ContinueAdvancesToMinimum ==
    [][LET rows == {v \in Participants : sess[v].status # "none"}
           least == CHOOSE m \in {sess[v].current_question_index : v \in rows} :
                        \A v \in rows : m <= sess[v].current_question_index
       IN  (Continue(Creator) /\ cached /\ rows # {}) =>
               IF least < NumQuestions
               THEN curIndex' = least /\ instStatus' = instStatus
               ELSE instStatus' = InstanceStatusFinished]_vars

\* C12: a creator's continue handled when the instance is already finished
\* sends quiz_finished to no client and changes no session's finished_at.
C12_SecondContinueAtEndIsNoOp ==
    [][(Continue(Creator) /\ instStatus = InstanceStatusFinished) =>
           /\ \A u \in Users : \A i \in 1..Len(sent'[u]) :
                  sent'[u][i].type # "quiz_finished"
           /\ \A u \in Users : sess'[u].finished_at = sess[u].finished_at]_vars

\* C13: in a state the dispatcher has just reached by handling a creator's
\* continue (the participants were sent the question of current_index and the
\* creator its progress notice), handling another continue right away is a
\* no-op: it cannot send a question or change current_index, a session, the
\* instance's status or the timer table.
C13_RepeatedContinueIsNoOp ==
    (/\ Creator \in clients
     /\ sent[Creator] = <<WaitingMsg(curIndex, "Question in progress")>>
     /\ \E u \in Participants : /\ Len(sent[u]) = 1
                                /\ sent[u][1].type = "question"
                                /\ sent[u][1].question_index = curIndex)
    => ~ENABLED (/\ Continue(Creator)
                 /\ \/ \E u \in Users : \E i \in 1..Len(sent'[u]) :
                           sent'[u][i].type = "question"
                    \/ curIndex' # curIndex
                    \/ sess' # sess
                    \/ instStatus' # instStatus
                    \/ timers' # timers)

\* C14: the steps of a participant's disconnect and reconnect (unregister,
\* register, Join, Resume) leave the score, answers and
\* current_question_index of its session as they were; and the Resume of a
\* participant whose session is one question ahead of current_index (sync)
\* sends it the leaderboard and then waiting_for_creator, while the Resume of
\* a participant who has answered up to question k (async) sends it
\* question(k+1).
C14_ReconnectKeepsSessionAndResumes ==
    [][\A u \in Participants :
          /\ (/\ sess[u].status # "none"
              /\ \/ unregisterClient(u) \/ registerClient(u) \/ JoinFetch(u)
                 \/ JoinSession(u) \/ Resume(u) \/ ResumeSend(u))
             => /\ sess'[u].score = sess[u].score
                /\ sess'[u].answers = sess[u].answers
                /\ sess'[u].current_question_index = sess[u].current_question_index
          /\ (/\ ResumeSend(u)
              /\ ~resumes[u].stale
              /\ resumes[u].index = resumes[u].currentIndex + 1)
             => sent'[u] = <<LeaderboardMsg(getLeaderboard(sess)),
                             WaitingMsg(resumes[u].currentIndex, "Waiting for next question")>>
          /\ (/\ Resume(u)
              /\ quiz.type = QuizTypeAsync
              /\ ~resumes[u].stale
              /\ Len(sess[u].answers) > 0
              /\ sess[u].current_question_index < NumQuestions)
             => /\ Len(sent'[u]) = 1
                /\ sent'[u][1].type = "question"
                /\ sent'[u][1].question_index = sess[u].current_question_index]_vars

\* C14, reached: participant a answered question 0 of a sync quiz,
\* disconnected and connected again, and its Resume has just sent it the
\* leaderboard and waiting_for_creator; its session still holds the answer.
C14_ResumedAfterAnswer ==
    /\ quiz.type = QuizTypeSync
    /\ nUnregister = 1
    /\ "a" \in clients
    /\ Len(sess["a"].answers) = 1
    /\ sess["a"].score > 0
    /\ sess["a"].current_question_index = curIndex + 1
    /\ sent["a"] = <<LeaderboardMsg(getLeaderboard(sess)),
                     WaitingMsg(curIndex, "Waiting for next question")>>

\* C15: no participant is sent a question for which its session already
\* holds an answer.
C15_NoAnsweredQuestionServed ==
    \A u \in Participants :
        \A i \in 1..Len(sent[u]) :
            sent[u][i].type = "question" =>
                \A j \in 1..Len(sess[u].answers) :
                    sess[u].answers[j].question_id # sent[u][i].question_index

\* C16: when the sync Resume of a participant who has not answered the
\* current question k, a question with a time limit that has been started,
\* finds that the remaining time limit - (now - QuestionStart(k)) is at most
\* 0, it sends the client time_expired{k} and waiting_for_creator{k} and no
\* question.
C16_ResumeAfterExpirySendsNoQuestion ==
    [][\A u \in Participants :
          LET k == resumes[u].currentIndex
              start == qStart[<<"*", k>>]
          IN  (/\ ResumeSend(u)
               /\ ~resumes[u].stale
               /\ resumes[u].index <= k
               /\ TimeLimitSec(k) > 0
               /\ start > 0
               /\ TimeLimitSec(k) - (now - start) <= 0)
              => /\ \E i \in 1..Len(sent'[u]) : sent'[u][i] = TimeExpiredMsg(k)
                 /\ \E i \in 1..Len(sent'[u]) :
                        /\ sent'[u][i].type = "waiting_for_creator"
                        /\ sent'[u][i].question_index = k
                 /\ \A i \in 1..Len(sent'[u]) : sent'[u][i].type # "question"]_vars

\* C17: a start_quiz or continue from a participant's client is answered
\* with exactly one error message to that client ("Only the creator can
\* start the quiz", "Only the creator can continue"); no other client is sent
\* anything, and the instance's status, every session, current_index, the
\* QuestionStart values and the timer table stay as they were.
C17_NonCreatorCommandRejected ==
    [][\A u \in Participants :
          /\ StartQuiz(u) =>
                sent' = ToClient(u, <<ErrorMsg("Only the creator can start the quiz")>>)
          /\ Continue(u) =>
                sent' = ToClient(u, <<ErrorMsg("Only the creator can continue")>>)
          /\ (StartQuiz(u) \/ Continue(u)) =>
                UNCHANGED <<instStatus, sess, curIndex, qStart, timers, cbs, clients>>]_vars

\* C17, reached: participant a's start_quiz was answered with the error while
\* the instance is waiting and a's session exists.
C17_ParticipantStartRejected ==
    /\ instStatus = InstanceStatusWaiting
    /\ sess["a"].status = SessionStatusJoined
    /\ sent = ToClient("a", <<ErrorMsg("Only the creator can start the quiz")>>)

\* C18: an answer for a question with a time limit, handled when the time
\* spent since the question's QuestionStart exceeds the limit, is answered
\* with the error "Time limit exceeded" and nothing else, and no session
\* changes.
C18_LateAnswerRejected ==
    [][\A u \in Participants : \A qid \in QIdx : \A answer \in AnswerTexts :
          LET start == qStart[Key(u, qid)]
              spent == IF start = 0 \/ now - start < 0 THEN 0 ELSE now - start
          IN  (/\ Answer(u, qid, answer)
               /\ cached
               /\ quiz.limits[qid + 1] > 0
               /\ spent > quiz.limits[qid + 1])
              => /\ sent' = ToClient(u, <<ErrorMsg("Time limit exceeded")>>)
                 /\ sess' = sess]_vars

\* C18, reached: participant a, who holds a session, has just been answered
\* "Time limit exceeded", two seconds after a question with a limit of one
\* second was started.
C18_AnswerAfterLimit ==
    /\ sess["a"].status # "none"
    /\ sent = ToClient("a", <<ErrorMsg("Time limit exceeded")>>)
    /\ \E k \in QIdx : /\ qStart[Key("a", k)] > 0
                       /\ now - qStart[Key("a", k)] > quiz.limits[k + 1]

\* calculateScore is between 0 and max_score, and max_score when there is no
\* time limit: for every max_score from 0 up, every time limit and every
\* time spent, in steps of half a second.
ScoreBetweenZeroAndMax ==
    \A M \in 0..QMaxScore : \A limit \in 0..(LimitSec + 1) : \A t \in 0..(2 * LateTime) :
        /\ 0 <= calculateScore(M, t * 500, limit * 1000)
        /\ calculateScore(M, t * 500, limit * 1000) <= M
        /\ limit = 0 => calculateScore(M, t * 500, limit * 1000) = M

C20_LeaderboardOrderedAndRanked ==
    LET rows == {v \in Participants : sess[v].status # "none"}
        ahead(v, w) == \/ sess[v].score > sess[w].score
                       \/ /\ sess[v].score = sess[w].score
                          /\ sess[v].started_at < sess[w].started_at
        place(v) == 1 + Cardinality({w \in rows : ahead(w, v)})
    IN  \A u \in Users : \A i \in 1..Len(sent[u]) :
            /\ sent[u][i].type = "leaderboard" =>
                   LET board == sent[u][i].leaderboard
                   IN  /\ Len(board) = Cardinality(rows)
                       /\ \A j \in 1..Len(board) :
                              /\ board[j].rank = j
                              /\ board[j].user_id \in rows
                              /\ place(board[j].user_id) = j
                              /\ board[j].score = sess[board[j].user_id].score
            /\ (sent[u][i].type = "quiz_finished" /\ u \in Participants) =>
                   /\ sent[u][i].final_score = sess[u].score
                   /\ sent[u][i].rank = place(u)

\* C20, reached: the creator's continue has finished a quiz in which b, who
\* joined after a, has the higher score: b is told rank 1 and a rank 2.
C20_LaterJoinerRanksFirst ==
    /\ sess["a"].started_at < sess["b"].started_at
    /\ sess["b"].score > sess["a"].score
    /\ \E i \in 1..Len(sent["b"]) :
           sent["b"][i] = QuizFinishedMsg(sess["b"].score, 1)
    /\ \E i \in 1..Len(sent["a"]) :
           sent["a"][i] = QuizFinishedMsg(sess["a"].score, 2)

\* C21: no question message is sent to the creator's client, in a sync or in
\* an async instance.
C21_NoQuestionToCreator ==
    \A i \in 1..Len(sent[Creator]) : sent[Creator][i].type # "question"

\* C22: the Join of a client that finds the instance finished sends that
\* client the error "Quiz has already finished" and nothing to anyone else;
\* from then on the client is sent no connected message and stays due for
\* the delayed unregister until it is out of the registry, which that
\* unregister brings about; and none of these steps creates or changes a
\* session row.
C22_JoinOfFinishedInstanceRejected ==
    [][\A u \in Users :
          /\ (JoinFetch(u) /\ instStatus = InstanceStatusFinished /\ ~joins[u].stale)
             => /\ sent' = ToClient(u, <<ErrorMsg("Quiz has already finished")>>)
                /\ joins'[u].pc = "kick"
                /\ sess' = sess /\ nSessions' = nSessions
          /\ joins[u].pc = "kick"
             => /\ \A i \in 1..Len(sent'[u]) : sent'[u][i].type # "connected"
                /\ joins'[u].pc = "kick" \/ u \notin clients'
          /\ JoinKick(u)
             => /\ u \notin clients'
                /\ sess' = sess /\ nSessions' = nSessions]_vars

\* C22, reached: participant a, whose earlier session exists, has connected
\* again to the finished instance and has just been sent the error; it is
\* still registered and due for the delayed unregister.
C22_RejectedAndDueForUnregister ==
    /\ instStatus = InstanceStatusFinished
    /\ "a" \in clients
    /\ sess["a"].status # "none"
    /\ joins["a"].pc = "kick"
    /\ sent = ToClient("a", <<ErrorMsg("Quiz has already finished")>>)

\* C23: the Join of a registered client whose Quiz Catalog fetch fails sends
\* the client the error "Failed to load quiz" and leaves it out of the
\* registry or due for an unregister.
C23_FailedFetchUnregisters ==
    [][\A u \in Users :
          (JoinFetchFails(u) /\ ~joins[u].stale)
          => /\ sent' = ToClient(u, <<ErrorMsg("Failed to load quiz")>>)
             /\ u \notin clients' \/ joins'[u].pc = "kick"]_vars

\* C24: in an async instance, the handling of a participant's answer, of its
\* question timeout and of the finishQuiz that follows changes no other
\* participant's session and sends no other participant anything; and a
\* participant whose answer to the last question is accepted, or whose
\* finishQuiz after the last timeout completes, is sent quiz_finished.
C24_AsyncParticipantsIndependent ==
    [][\A x \in Participants : \A y \in Participants \ {x} :
          /\ (\/ \E qid \in QIdx : Answer(x, qid, CorrectAnswer)
              \/ \E cb \in cbs : cb.key[1] = x /\ CallbackRun(cb)
              \/ FinishWrite(x))
             => /\ sess'[y] = sess[y]
                /\ sent'[y] = <<>>
          /\ (/\ Answer(x, NumQuestions - 1, CorrectAnswer)
              /\ Len(sess'[x].answers) > Len(sess[x].answers))
             => \E i \in 1..Len(sent'[x]) : sent'[x][i].type = "quiz_finished"
          /\ (FinishWrite(x) /\ ~fins[x].stale)
             => \E i \in 1..Len(sent'[x]) : sent'[x][i].type = "quiz_finished"]_vars

\* C24, reached: participant a has answered both questions and has just been
\* sent quiz_finished, while participant b, connected and with a session,
\* has answered nothing and is not finished.
C24_FinishedWithoutTheOther ==
    /\ quiz.type = QuizTypeAsync
    /\ {"a", "b"} \subseteq clients
    /\ Len(sess["a"].answers) = 2
    /\ sess["a"].status = SessionStatusFinished
    /\ \E i \in 1..Len(sent["a"]) : sent["a"][i].type = "quiz_finished"
    /\ sess["b"].status \in {SessionStatusJoined, SessionStatusInProgress}
    /\ sess["b"].answers = <<>>
    /\ sent["b"] = <<>>

\* C25: unregistering a client while other clients of the instance remain
\* removes no pending timer and sends each remaining client
\* participants_update{left} with the remaining count; unregistering the last
\* client leaves no timer of the instance pending and sends nothing; either
\* way the instance's status, the sessions, current_index and the
\* QuestionStart values stay as they were.
C25_UnregisterFrame ==
    [][\A u \in Users :
          unregisterClient(u) =>
              /\ clients' = clients \ {u}
              /\ IF clients' # {}
                 THEN /\ \A key \in Keys :
                            /\ timers'[key].deadline = timers[key].deadline
                            /\ timers'[key] = NoTimer <=> timers[key] = NoTimer
                      /\ \A v \in Users :
                            sent'[v] = IF v \in clients'
                                       THEN <<ParticipantsUpdateMsg("left", u, Cardinality(clients'))>>
                                       ELSE <<>>
                 ELSE /\ \A key \in Keys : timers'[key] = NoTimer
                      /\ sent' = NoMsgs
              /\ UNCHANGED <<instStatus, sess, nSessions, curIndex, qStart, cached>>]_vars

\* C25, reached: the creator of an async quiz started it, which installed
\* the timer of its question 0 this very second, and has then left as the
\* last client: no timer is pending, no callback has fired, and the instance
\* is still active with its session and QuestionStart in place.
C25_LastClientLeftWithTimerPending ==
    /\ clients = {}
    /\ nUnregister = 1
    /\ instStatus = InstanceStatusActive
    /\ quiz.type = QuizTypeAsync
    /\ qStart[<<Creator, 0>>] = now
    /\ qStart[<<Creator, 1>>] = 0
    /\ sess[Creator].status = SessionStatusInProgress
    /\ cbs = {}
    /\ \A key \in Keys : timers[key] = NoTimer

\* C26: a panic raised while one client's event is handled is recovered, so
\* the dispatcher keeps processing the events of the others: whenever a user
\* has no client registered, no goroutine of an earlier connection running
\* and the connection order allows it, the register event of that user's new
\* client is processed.
C26_DispatcherKeepsProcessing ==
    \A u \in Users :
        ( /\ u \notin clients
          /\ joins[u].pc = "none" /\ resumes[u].pc = "none" /\ fins[u].pc = "none"
          /\ Cardinality({v \in Users : joins[v].pc # "none"}) < MaxJoining
          /\ ConnectsInOrder(u) )
        => ENABLED registerClient(u)

\* C29: no message is ever enqueued on a client's outbound queue after that
\* queue has been closed: no goroutine, timer callback, broadcast or
\* dispatcher step ever sends on a closed client.Send.
C29_NoSendOnClosedQueue ==
    [][~panicked => ~panicked']_vars

\* C27: a connection request registers a client only if it carries an
\* identity and its target resolves to an existing instance the caller has
\* access to; a request without identity is answered 401, one without
\* instance_id and access_code 400, one whose target names no instance 404,
\* one whose caller has no access to the instance 403, and none of these
\* registers a client.
C27_ConnectionRequestChecked ==
    [][\A req \in Requests :
          HandleWebSocket(req) =>
              LET status == HandleWebSocketStatus(req)
                  given == req.instance_id # "" \/ req.access_code # ""
                  exists == IF req.instance_id # ""
                            THEN req.instance_id = InstanceId
                            ELSE req.access_code = AccessCode
              IN  /\ req.user = "" => status = StatusUnauthorized
                  /\ req.user # "" /\ ~given => status = StatusBadRequest
                  /\ req.user # "" /\ given /\ ~req.fails /\ ~exists
                        => status = StatusNotFound
                  /\ req.user # "" /\ given /\ ~req.fails /\ exists /\ ~req.has_access
                        => status = StatusForbidden
                  /\ status \in {StatusUnauthorized, StatusBadRequest,
                                 StatusForbidden, StatusNotFound}
                        => clients' = clients
                  /\ clients' # clients
                        => req.user # "" /\ exists /\ req.has_access]_vars

\* C28: for a question with time_limit_sec = 0 no question timer is ever
\* pending and no timer callback ever runs, no time_expired is ever sent for
\* it, and an answer to it is never answered with the error "Time limit
\* exceeded", however long after the question's start it arrives.
C28_UntimedQuestionNeverExpires ==
    /\ [](\A k \in QIdx :
            quiz.limits[k + 1] = 0 =>
                /\ \A key \in Keys : key[2] = k => timers[key] = NoTimer
                /\ \A cb \in cbs : cb.key[2] # k
                /\ \A v \in Users : \A i \in 1..Len(sent[v]) :
                      sent[v][i] # TimeExpiredMsg(k))
    /\ [][\A u \in Users : \A qid \in QIdx : \A answer \in AnswerTexts :
             (Answer(u, qid, answer) /\ quiz.limits[qid + 1] = 0)
             => \A v \in Users : \A i \in 1..Len(sent'[v]) :
                   sent'[v][i] # ErrorMsg("Time limit exceeded")]_vars

\* C28, reached: participant a holds an accepted answer for the question
\* without a time limit and has just received its answer_result, more than
\* LimitSec seconds after that question was started.
C28_LateAnswerToUntimedAccepted ==
    \E k \in QIdx :
        /\ quiz.limits[k + 1] = 0
        /\ qStart[Key("a", k)] > 0
        /\ now - qStart[Key("a", k)] > LimitSec
        /\ \E i \in 1..Len(sess["a"].answers) : sess["a"].answers[i].question_id = k
        /\ \E i \in 1..Len(sent["a"]) : sent["a"][i].type = "answer_result"

\* C30: each client's outbound queue is closed at most once: unregisterClient
\* never removes, and so never closes the Send of, a client whose Send
\* SendMessage has already closed on overflow.
C30_QueueClosedAtMostOnce ==
    [][\A u \in Users : unregisterClient(u) => u \notin closed]_vars

\* C31: the registry of clients is read, iterated and written only on the
\* dispatcher or under the registry mutex: while a goroutine goes through the
\* set of clients it took from the registry, no step adds a client to the
\* registry or removes one from it.
C31_RegistryIteratedUnderLock ==
    [][(\E v \in Users : resumes[v].pc = "iterate") => clients' = clients]_vars

\* C32: in a sync instance, once a continue of the creator has sent
\* question(next) to a participant, no timer of an earlier question is
\* pending or about to run, and no later step sends time_expired for a
\* question before the current one.
C32_NoTimerOfEarlierQuestion ==
    /\ [][\A next \in QIdx :
             ( /\ quiz.type = QuizTypeSync
               /\ Continue(Creator)
               /\ \E v \in Participants : \E i \in 1..Len(sent'[v]) :
                     /\ sent'[v][i].type = "question"
                     /\ sent'[v][i].question_index = next )
             => \A j \in QIdx :
                   j < next => /\ timers'[<<"*", j>>] = NoTimer
                               /\ \A cb \in cbs' : cb.key # <<"*", j>>]_vars
    /\ [](quiz.type = QuizTypeSync =>
            \A j \in QIdx : \A v \in Users : \A i \in 1..Len(sent[v]) :
                (j < curIndex /\ qStart[<<"*", curIndex>>] # 0)
                => sent[v][i] # TimeExpiredMsg(j))

\* C33: in a sync instance a step that handles an answer changes a session
\* only when the answer names the question at current_index and that
\* question has been sent (its QuestionStart is recorded): an answer for a
\* question that is not exposed yet is not persisted and earns no score.
C33_OnlyCurrentQuestionAnswered ==
    [][\A u \in Users : \A qid \in QIdx : \A answer \in AnswerTexts :
          (quiz.type = QuizTypeSync /\ Answer(u, qid, answer) /\ sess' # sess)
          => qid = curIndex /\ qStart[<<"*", qid>>] # 0]_vars

\* C34: after start_quiz on a sync instance every participant's client that
\* was registered at that time has a session in progress, also when its Join
\* was still running during start_quiz: while the instance is active, every
\* registered participant whose Join has ended and that holds a session holds
\* one that is in progress or finished.
C34_StartedParticipantsInProgress ==
    (quiz.type = QuizTypeSync /\ instStatus = InstanceStatusActive)
    => \A v \in clients \ {Creator} :
          (joins[v].pc = "none" /\ sess[v].status # "none")
          => sess[v].status \in {SessionStatusInProgress, SessionStatusFinished}

\* C35: once a QuestionStart is recorded for a key no step changes it, and
\* every question message carries the time that remains of the question's
\* limit counted from the recorded QuestionStart of its key (0 for a question
\* without a limit, or when nothing remains).
C35_QuestionStartWrittenOnce ==
    [][/\ \A key \in Keys : qStart[key] # 0 => qStart'[key] = qStart[key]
       /\ \A v \in Users : \A i \in 1..Len(sent'[v]) :
             sent'[v][i].type = "question" =>
                LET k == sent'[v][i].question_index
                    start == qStart'[Key(v, k)]
                    limit == quiz.limits[k + 1]
                    remaining == limit - (now - start)
                IN  /\ start # 0
                    /\ sent'[v][i].time_limit_ms =
                          IF limit = 0 \/ remaining <= 0 THEN 0 ELSE remaining * 1000]_vars

\* C35, reached: participant a has just been sent again a question with a
\* time limit whose QuestionStart was recorded a second earlier, with no
\* time remaining in the payload, and the recorded QuestionStart is still the
\* earlier one.
C35_QuestionResentWithFirstStart ==
    \E k \in QIdx : \E i \in 1..Len(sent["a"]) :
        /\ quiz.limits[k + 1] > 0
        /\ sent["a"][i] = QuestionMsg(k, 0)
        /\ qStart[Key("a", k)] # 0
        /\ qStart[Key("a", k)] < now

\* C36: in a sync instance whose questions all have a time limit, where the
\* creator sends continue after every question has concluded, the instance
\* becomes finished also when a connected participant never answers: from
\* every state where the instance is active and participant a is registered
\* with a session in progress, a state with the instance finished follows.
C36_PatientQuizFinishes ==
    ( /\ instStatus = InstanceStatusActive
      /\ "a" \in clients
      /\ sess["a"].status = SessionStatusInProgress )
    ~> (instStatus = InstanceStatusFinished)

\* C37: in a sync instance no step lowers the cached current_index: every
\* continue writes a value that is at least the value stored before.
C37_CurrentIndexNeverDecreases ==
    [][quiz.type = QuizTypeSync => curIndex' >= curIndex]_vars

\* C38: connected is the first message a client is sent: no quiz_started and
\* no question is sent to a participant's registered client whose Join has
\* not yet sent connected, also when the creator's start_quiz or continue is
\* handled in between.
C38_ConnectedComesFirst ==
    \A u \in clients \ {Creator} :
        joins[u].pc \in {"start", "got"} =>
            \A i \in 1..Len(sent[u]) : sent[u][i].type \notin {"quiz_started", "question"}

\* C39: in an async instance a participant that joined while the instance
\* was waiting and is connected when the creator starts the quiz is
\* eventually sent question(0), which records the QuestionStart of its key,
\* without reconnecting: from every state where the instance is active and
\* the registered participant a holds a session and has no Join running, a
\* state follows in which the QuestionStart of a's question 0 is recorded.
C39_JoinedParticipantGetsFirstQuestion ==
    ( /\ instStatus = InstanceStatusActive
      /\ "a" \in clients
      /\ joins["a"].pc = "none"
      /\ sess["a"].status # "none" )
    ~> (qStart[<<"a", 0>>] # 0)

\* C40: a correct answer to a question with max score M and time limit
\* L > 0, given t ms after the question's start (0 <= t <= L), is scored
\* floor(M * (1 - 0.5 * t/L)), which is floor(M * (2L - t) / 2L): the score
\* of every correct answer a accepts is that number, it is M when t = 0 and
\* never below floor(M/2), and calculateScore never grows with t.
C40_ScoreIsFloorOfTimeShare ==
    [][\A qid \in QIdx :
          ( /\ Answer("a", qid, CorrectAnswer)
            /\ TimeLimitSec(qid) > 0
            /\ Len(sess'["a"].answers) = Len(sess["a"].answers) + 1 )
          => LET start == IF qStart[Key("a", qid)] = 0 THEN now ELSE qStart[Key("a", qid)]
                 t == (now - start) * 1000
                 L == TimeLimitSec(qid) * 1000
                 score == sess'["a"].answers[Len(sess'["a"].answers)].score
             IN  /\ score = (MaxScore * (2 * L - t)) \div (2 * L)
                 /\ t = 0 => score = MaxScore
                 /\ score >= MaxScore \div 2
                 /\ \A earlier \in 0..(t \div 1000) :
                       calculateScore(MaxScore, earlier * 1000, L) >= score
                 /\ \A later \in (t \div 1000)..TimeLimitSec(qid) :
                       calculateScore(MaxScore, later * 1000, L) <= score]_vars
====
